---- MODULE Spec2Model ----
(***************************************************************************)
(* A model of monthly-report.py (Firefly III monthly email report): the    *)
(* category and budget summaries with their display sort, the Sankey flow  *)
(* graph (nodes and links), and the control flow of one run (config,       *)
(* API probe, preview or SMTP delivery, healthcheck ping).                  *)
(*                                                                         *)
(* Amounts are integers (minor units).  A value read from an API response  *)
(* keeps the form the JSON gave it: a number, a numeric string, null, or   *)
(* no key at all, because the script tests such values for truthiness      *)
(* before it converts them with float().                                   *)
(***************************************************************************)
EXTENDS Integers, Sequences, FiniteSets, TLC

VARIABLES
    pc,                  \* position of main() in the part being modelled
    totals,              \* list of category summaries (line 113)
    totalsFetched,       \* history: totals as appended, before the sort
    budgetTotals,        \* list of budget summaries (line 150)
    budgetsFetched,      \* history: every budget fetched, with what was determined
    netChangeThisMonth,  \* balance of the month (line 241)
    incomeLegs,          \* history: the income transaction legs read so far
    revenue_to_category, \* dict: revenue account -> dict: category -> amount
    income_cat_order,    \* the order in which the set all_income_categories iterates
    sankeyNodes,         \* list of {id, label}
    sankeyLinks,         \* list of {source, target, value}
    indices,             \* the name -> node index dicts, hub and savings index
    budgetsMapped,       \* number of budgets the transaction loop (544) has done
    budgetFetchFailed,   \* history: ids of the budgets whose transaction fetch failed
    transactionsRead,    \* history: number of budget transaction legs read so far
    budget_category_map, \* dict: budget name -> dict: category name -> amount
    budgetResponses,     \* history: per budget done, whether the fetch failed, the legs
    currency,            \* config.get("currency", None)
    monthSummary,        \* the keys of the monthly summary response, in its order
    keysScanned,         \* number of keys the loop of line 231 has visited
    currencyName,        \* the local of lines 229 and 233
    lookups,             \* history: the summary keys looked up (lines 235-243)
    config,              \* what yaml.safe_load gave for config.yaml
    preview,             \* args.preview
    exitCode,            \* exit status of the process, NoExit while it runs
    output,              \* the error lines printed
    network,             \* history: the network calls made, in order
    raised,              \* the exception propagating out of the SMTP block
    failure,             \* history: the delivery stage that failed first
    sent,                \* send_message returned
    previewWritten,      \* preview.html was written
    pingOutcome          \* history: how the healthcheck ping ended

aggVars == <<totals, totalsFetched, budgetTotals, budgetsFetched>>

graphVars == <<netChangeThisMonth, incomeLegs, revenue_to_category, income_cat_order,
               sankeyNodes, sankeyLinks, indices, budgetsMapped, budgetFetchFailed,
               transactionsRead, budget_category_map, budgetResponses>>

runVars == <<config, preview, exitCode, output, network, raised, failure, sent,
             previewWritten, pingOutcome>>

currencyVars == <<currency, monthSummary, keysScanned, currencyName, lookups>>

vars == <<pc, aggVars, graphVars, runVars, currencyVars>>

----------------------------------------------------------------------------
(* Bounds of the model *)

MaxCategories == 3
MaxBudgets == 2
MaxInputs == 3          \* categories, budgets and income legs of one flow graph
MaxTransactions == 1    \* budget transaction legs of one flow graph, all budgets
MaxSummaryKeys == 4     \* keys of one summary response

----------------------------------------------------------------------------
(* Values as JSON gives them *)

RawNum(n) == [kind |-> "num", val |-> n]
RawStr(n) == [kind |-> "str", val |-> n]    \* a numeric string, e.g. "0.00"
Null == [kind |-> "null", val |-> 0]
Missing == [kind |-> "missing", val |-> 0]  \* the key (or list item) is not there

\* Python truth value of a JSON value: a number is true when non-zero, a
\* numeric string is non-empty and so always true, None is false.
Truthy(x) == CASE x.kind = "num" -> x.val # 0
               [] x.kind = "str" -> TRUE
               [] OTHER -> FALSE

\* float(x) of a number or a numeric string
Float(x) == x.val

Abs(n) == IF n < 0 THEN -n ELSE n

----------------------------------------------------------------------------
(* list.sort(key=...): a stable ascending sort on the keys.  Keys are the  *)
(* pairs (bool, float) of the two sort calls; False < True is 0 < 1.       *)

KeyLess(a, b) == a[1] < b[1] \/ (a[1] = b[1] /\ a[2] < b[2])

RECURSIVE InsertByKey(_, _)
InsertByKey(s, e) ==
    IF s = <<>> THEN <<e>>
    ELSE IF KeyLess(e.key, Head(s).key) THEN <<e>> \o s
    ELSE <<Head(s)>> \o InsertByKey(Tail(s), e)

RECURSIVE SortPairs(_)
SortPairs(s) ==
    IF s = <<>> THEN <<>>
    ELSE InsertByKey(SortPairs(SubSeq(s, 1, Len(s) - 1)), s[Len(s)])

----------------------------------------------------------------------------
(* Categories: lines 114-142 and the sort of line 258 *)

\* r["data"]["attributes"]["spent"][0]["sum"], or 0 on KeyError/IndexError
SumOrZero(raw) == IF raw.kind = "missing" THEN RawNum(0) ELSE raw

CategorySummary(name, spent, earned) ==
    [name |-> name,
     spent |-> SumOrZero(spent),
     earned |-> SumOrZero(earned),
     total |-> Float(SumOrZero(earned)) + Float(SumOrZero(spent))]

\* the sort key without abs(): "by total (descending)"
CategoryKeyDescending(x) == <<IF x.total = 0 THEN 1 ELSE 0, -x.total>>

CategoryKey(x) == <<IF x.total = 0 THEN 1 ELSE 0, -Abs(x.total)>>

SortCategories(list) ==
    LET sorted == SortPairs([i \in 1..Len(list) |->
                      [key |-> CategoryKey(list[i]), item |-> list[i]]])
    IN  [i \in 1..Len(list) |-> sorted[i].item]

CategoryNames == {"Food", "Gift"}
CategorySpent == {Missing, RawStr(-1), RawStr(-2)}
CategoryEarned == {Missing, RawStr(1), RawStr(2)}

FetchCategory ==
    /\ pc = "categories"
    /\ Len(totals) < MaxCategories
    /\ \E name \in CategoryNames, spent \in CategorySpent, earned \in CategoryEarned :
          /\ totals' = Append(totals, CategorySummary(name, spent, earned))
          /\ totalsFetched' = totals'
    /\ UNCHANGED <<pc, budgetTotals, budgetsFetched, graphVars, runVars, currencyVars>>

SortTotals ==
    /\ pc = "categories"
    /\ totals' = SortCategories(totals)
    /\ pc' = "categories_sorted"
    /\ UNCHANGED <<totalsFetched, budgetTotals, budgetsFetched, graphVars, runVars, currencyVars>>

----------------------------------------------------------------------------
(* Budgets: lines 151-204 and the sort of line 298 *)

\* lines 163-182: the limit of one budget.  auto is auto_budget_amount,
\* limits the "amount" of each record of the budget-limits response.
BudgetLimit(auto, limits) ==
    IF auto.kind = "missing" THEN RawNum(0)              \* KeyError, line 181
    ELSE IF Truthy(auto) THEN auto
    ELSE IF limits # <<>> THEN limits[1]
    ELSE RawNum(0)

\* line 188-190: "Only include budgets with limit or spending"
BudgetIncluded(limit, spent) == Truthy(limit) \/ Truthy(spent)

BudgetSummary(id, name, limit, spent) ==
    [id |-> id, name |-> name, limit |-> limit, spent |-> spent,
     remaining |-> Float(limit) + Float(spent)]

\* the sort key with the sign flipped: "by spent amount (descending)"
BudgetKeyDescending(x) == <<IF Float(x.spent) = 0 THEN 1 ELSE 0, -Float(x.spent)>>

BudgetKey(x) == <<IF Float(x.spent) = 0 THEN 1 ELSE 0, Float(x.spent)>>

SortBudgets(list) ==
    LET sorted == SortPairs([i \in 1..Len(list) |->
                      [key |-> BudgetKey(list[i]), item |-> list[i]]])
    IN  [i \in 1..Len(list) |-> sorted[i].item]

BudgetNames == {"Rent", "Misc"}
BudgetAuto == {Missing, Null, RawNum(0), RawStr(0), RawStr(10)}
BudgetLimitRecords == {<<>>, <<RawStr(7), RawStr(9)>>}
BudgetSpent == {Missing, RawStr(-4), RawStr(-9)}

FetchBudget ==
    /\ pc = "budgets"
    /\ Len(budgetsFetched) < MaxBudgets
    /\ \E name \in BudgetNames, auto \in BudgetAuto,
          limits \in BudgetLimitRecords, spent \in BudgetSpent :
          LET id == Len(budgetsFetched) + 1
              budgetLimit == BudgetLimit(auto, limits)
              budgetSpent == SumOrZero(spent)
          IN  /\ budgetsFetched' = Append(budgetsFetched,
                     [id |-> id, name |-> name, auto |-> auto, limits |-> limits,
                      limit |-> budgetLimit, spent |-> budgetSpent])
              /\ budgetTotals' =
                     IF BudgetIncluded(budgetLimit, budgetSpent)
                     THEN Append(budgetTotals,
                              BudgetSummary(id, name, budgetLimit, budgetSpent))
                     ELSE budgetTotals
    /\ UNCHANGED <<pc, totals, totalsFetched, graphVars, runVars, currencyVars>>

SortBudgetTotals ==
    /\ pc = "budgets"
    /\ budgetTotals' = SortBudgets(budgetTotals)
    /\ pc' = "budgets_sorted"
    /\ UNCHANGED <<totals, totalsFetched, budgetsFetched, graphVars, runVars, currencyVars>>

----------------------------------------------------------------------------
(* Python dicts keep insertion order: a dict is a sequence of [k, v]       *)

DictKeys(d) == [i \in 1..Len(d) |-> d[i].k]

DictHas(d, key) == \E i \in 1..Len(d) : d[i].k = key

DictGet(d, key, default) ==
    IF DictHas(d, key)
    THEN d[CHOOSE i \in 1..Len(d) : d[i].k = key].v
    ELSE default

\* d[key] = value: in place when the key is there, appended otherwise
DictPut(d, key, value) ==
    IF DictHas(d, key)
    THEN [i \in 1..Len(d) |-> IF d[i].k = key THEN [k |-> key, v |-> value] ELSE d[i]]
    ELSE Append(d, [k |-> key, v |-> value])

RECURSIVE Flatten(_)
Flatten(ss) == IF ss = <<>> THEN <<>> ELSE Head(ss) \o Flatten(Tail(ss))

RECURSIVE SumSeq(_)
SumSeq(s) == IF s = <<>> THEN 0 ELSE Head(s) + SumSeq(Tail(s))

Range(s) == {s[i] : i \in 1..Len(s)}

\* every order in which a set can iterate
Orders(S) == {f \in [1..Cardinality(S) -> S] : \A x \in S : \E i \in DOMAIN f : f[i] = x}

----------------------------------------------------------------------------
(* Flow graph, lines 428-596 *)

Absent == "<absent>"      \* a name the transaction leg does not carry
NoIndex == -1             \* savings_index = None

\* lines 433-441: one leg of an income transaction
AddIncome(r2c, leg) ==
    LET amount == Abs(Float(leg.amount))
        source_name == IF leg.source = Absent THEN "Other Income" ELSE leg.source
        category == IF leg.category = Absent THEN "" ELSE leg.category
        cats == DictGet(r2c, source_name, <<>>)
    IN  DictPut(r2c, source_name,
                DictPut(cats, category, DictGet(cats, category, 0) + amount))

\* line 448
ExpenseCategories(list) ==
    LET Test(c) == c.total < 0 IN SelectSeq(list, Test)

\* without the test of the spending: every budget of the summary
AllBudgets(list) == list

\* lines 477-478 and 531-532: the budgets that get a node and a hub link
SpentBudgets(list) ==
    LET Test(b) == Float(b.spent) # 0 IN SelectSeq(list, Test)

\* lines 461-463
AllIncomeCategories(r2c) ==
    UNION {Range(DictKeys(r2c[i].v)) : i \in 1..Len(r2c)}

\* the nodes of one level: one per name of the list, in its order
LevelNodes(prefix, names) ==
    [i \in 1..Len(names) |-> [id |-> prefix \o names[i], label |-> names[i]]]

\* the index dict of one level, the first node of which has index base: a
\* name that comes twice keeps the index written last
LevelIndices(names, base) ==
    [n \in Range(names) |->
        base - 1 + CHOOSE i \in 1..Len(names) :
                      /\ names[i] = n
                      /\ \A j \in 1..Len(names) : names[j] = n => j <= i]

Names(list) == [i \in 1..Len(list) |-> list[i].name]

Lower(name) ==
    CASE name = "SAVINGS" -> "savings"
      [] name = "Savings" -> "savings"
      [] name = "Net Savings" -> "net savings"
      [] name = "Rent" -> "rent"
      [] name = "Misc" -> "misc"
      [] name = "Food" -> "food"
      [] name = "Gift" -> "gift"
      [] OTHER -> name

\* the collision test without lower()
SurplusLabelCaseSensitive(budgets) ==
    IF "savings" \notin {budgets[i].name : i \in 1..Len(budgets)}
    THEN "Savings" ELSE "Net Savings"

\* lines 495-500
SurplusLabel(budgets) ==
    IF "savings" \notin {Lower(budgets[i].name) : i \in 1..Len(budgets)}
    THEN "Savings" ELSE "Net Savings"

\* line 494
HasSurplus(net) == net > 0

\* lines 505-514: revenue account -> income category, one per dict item
RevenueLinks(r2c, ix) ==
    Flatten([i \in 1..Len(r2c) |->
        [j \in 1..Len(r2c[i].v) |->
            [source |-> ix.revenue[r2c[i].k],
             target |-> ix.income_category[r2c[i].v[j].k],
             value |-> r2c[i].v[j].v]]])

\* the total taken from the first revenue account alone
TotalOfFirstAccount(r2c, income_cat) ==
    IF r2c = <<>> THEN 0 ELSE DictGet(r2c[1].v, income_cat, 0)

\* lines 518-520
TotalForCat(r2c, income_cat) ==
    SumSeq([i \in 1..Len(r2c) |-> DictGet(r2c[i].v, income_cat, 0)])

\* lines 516-528: income category -> hub
IncomeHubLinks(r2c, order, ix) ==
    LET Test(c) == TotalForCat(r2c, c) > 0
        cats == SelectSeq(order, Test)
    IN  [i \in 1..Len(cats) |->
            [source |-> ix.income_category[cats[i]],
             target |-> ix.income_hub,
             value |-> TotalForCat(r2c, cats[i])]]

\* lines 530-539: hub -> budget
BudgetLinks(budgets, ix) ==
    LET spent == SpentBudgets(budgets)
    IN  [i \in 1..Len(spent) |->
            [source |-> ix.income_hub,
             target |-> ix.budget[spent[i].name],
             value |-> Abs(Float(spent[i].spent))]]

\* lines 559-572: one transaction leg of budget b
AddExpense(map, b, t) ==
    LET amt == IF t.amount.kind \in {"num", "str"} THEN Float(t.amount) ELSE 0
        cat_name == IF t.category = Absent THEN "Uncategorized" ELSE t.category
        cats == DictGet(map, b.name, <<>>)
    IN  IF amt >= 0 THEN map
        ELSE DictPut(map, b.name,
                     DictPut(cats, cat_name, DictGet(cats, cat_name, 0) + Abs(amt)))

RECURSIVE AddExpenses(_, _, _)
AddExpenses(map, b, legs) ==
    IF legs = <<>> THEN map
    ELSE AddExpenses(AddExpense(map, b, Head(legs)), b, Tail(legs))

\* lines 574-586: budget -> expense category
ExpenseLinks(map, ix) ==
    LET Known(e) == e.k \in DOMAIN ix.budget
        mapped == SelectSeq(map, Known)
    IN  Flatten([i \in 1..Len(mapped) |->
            LET Kept(c) == c.k \in DOMAIN ix.category /\ c.v > 0
                cats == SelectSeq(mapped[i].v, Kept)
            IN  [j \in 1..Len(cats) |->
                    [source |-> ix.budget[mapped[i].k],
                     target |-> ix.category[cats[j].k],
                     value |-> cats[j].v]]])

\* the savings link without the test of the savings index
SavingsLinksAlways(ix, net) ==
    <<[source |-> ix.income_hub, target |-> ix.savings, value |-> net]>>

\* lines 588-596
SavingsLinks(ix, net) ==
    IF ix.savings # NoIndex
    THEN <<[source |-> ix.income_hub, target |-> ix.savings, value |-> net]>>
    ELSE <<>>

LegSources == {"Employer", Absent}
LegCategories == {"Salary", Absent}
LegAmounts == {RawStr(-5), RawStr(0)}

InputsRead ==
    Len(totals) + Len(budgetTotals) + Len(incomeLegs)

\* one iteration of the loop of lines 431-441
AccumulateIncome ==
    /\ pc = "income"
    /\ InputsRead < MaxInputs
    /\ \E source \in LegSources, category \in LegCategories, amount \in LegAmounts :
          LET leg == [source |-> source, category |-> category, amount |-> amount]
          IN  /\ incomeLegs' = Append(incomeLegs, leg)
              /\ revenue_to_category' = AddIncome(revenue_to_category, leg)
    /\ UNCHANGED <<pc, aggVars, runVars, currencyVars, netChangeThisMonth,
                   income_cat_order, sankeyNodes,
                   sankeyLinks, indices, budgetsMapped, budgetFetchFailed,
                   transactionsRead, budget_category_map, budgetResponses>>

\* lines 443-503: the node list, level by level
BuildNodes ==
    /\ pc = "income"
    /\ \E order \in Orders(AllIncomeCategories(revenue_to_category)) :
          LET revenue == DictKeys(revenue_to_category)
              budgets == Names(SpentBudgets(budgetTotals))
              categories == Names(ExpenseCategories(totals))
              hub == Len(revenue) + Len(order)
              afterCategories == hub + 1 + Len(budgets) + Len(categories)
              surplus == HasSurplus(netChangeThisMonth)
          IN  /\ income_cat_order' = order
              /\ sankeyNodes' =
                    LevelNodes("revenue_", revenue)
                    \o LevelNodes("income_cat_", order)
                    \o <<[id |-> "income_hub", label |-> "Total Income"]>>
                    \o LevelNodes("budget_", budgets)
                    \o LevelNodes("category_", categories)
                    \o (IF surplus
                        THEN <<[id |-> "net_savings",
                                label |-> SurplusLabel(budgetTotals)]>>
                        ELSE <<>>)
              /\ indices' =
                    [revenue |-> LevelIndices(revenue, 0),
                     income_category |-> LevelIndices(order, Len(revenue)),
                     income_hub |-> hub,
                     budget |-> LevelIndices(budgets, hub + 1),
                     category |-> LevelIndices(categories, hub + 1 + Len(budgets)),
                     savings |-> IF surplus THEN afterCategories ELSE NoIndex]
    /\ pc' = "links"
    /\ UNCHANGED <<aggVars, runVars, currencyVars, budgetResponses,
                   netChangeThisMonth, incomeLegs, revenue_to_category,
                   sankeyLinks, budgetsMapped, budgetFetchFailed, transactionsRead,
                   budget_category_map>>

\* lines 505-539: the links of the income side and hub -> budget
LinkIncome ==
    /\ pc = "links"
    /\ sankeyLinks' =
          sankeyLinks
          \o RevenueLinks(revenue_to_category, indices)
          \o IncomeHubLinks(revenue_to_category, income_cat_order, indices)
          \o BudgetLinks(budgetTotals, indices)
    /\ pc' = "budget_transactions"
    /\ UNCHANGED <<aggVars, runVars, currencyVars, budgetResponses,
                   netChangeThisMonth, incomeLegs, revenue_to_category,
                   income_cat_order, sankeyNodes, indices, budgetsMapped,
                   budgetFetchFailed, transactionsRead, budget_category_map>>

TxLegs ==
    {[category |-> "Food", amount |-> RawStr(-2)],
     [category |-> "Food", amount |-> RawStr(1)]}

\* a failed fetch that ends the loop: no budget after it is fetched
FetchFailureBreaks(done, count) == count

\* lines 553-556, `except Exception: continue`: the number of budgets done
\* after the fetch of budget done + 1 of count failed
AfterFetchFailure(done, count) == done + 1

\* one iteration of the loop of lines 544-572: the transactions of one
\* budget are fetched; the fetch fails, or answers with some legs
MapBudgetTransactions ==
    /\ pc = "budget_transactions"
    /\ budgetsMapped < Len(budgetTotals)
    /\ LET b == budgetTotals[budgetsMapped + 1] IN
          \/ /\ budgetFetchFailed' = budgetFetchFailed \cup {b.id}
             /\ budgetsMapped' = AfterFetchFailure(budgetsMapped, Len(budgetTotals))
             /\ budgetResponses' =
                   Append(budgetResponses, [budget |-> b, failed |-> TRUE, legs |-> <<>>])
             /\ UNCHANGED <<budget_category_map, transactionsRead>>
          \/ /\ \E n \in 0..(MaxTransactions - transactionsRead) :
                   \E legs \in [1..n -> TxLegs] :
                      /\ budget_category_map' = AddExpenses(budget_category_map, b, legs)
                      /\ budgetResponses' =
                            Append(budgetResponses,
                                   [budget |-> b, failed |-> FALSE, legs |-> legs])
                      /\ transactionsRead' = transactionsRead + n
             /\ budgetsMapped' = budgetsMapped + 1
             /\ UNCHANGED budgetFetchFailed
    /\ UNCHANGED <<pc, aggVars, runVars, currencyVars, netChangeThisMonth,
                   incomeLegs, revenue_to_category,
                   income_cat_order, sankeyNodes, sankeyLinks, indices>>

\* lines 574-596: budget -> category links and the savings link
LinkExpenses ==
    /\ pc = "budget_transactions"
    /\ budgetsMapped = Len(budgetTotals)
    /\ sankeyLinks' =
          sankeyLinks
          \o ExpenseLinks(budget_category_map, indices)
          \o SavingsLinks(indices, netChangeThisMonth)
    /\ pc' = "graph_done"
    /\ UNCHANGED <<aggVars, runVars, currencyVars, budgetResponses,
                   netChangeThisMonth, incomeLegs, revenue_to_category,
                   income_cat_order, sankeyNodes, indices, budgetsMapped,
                   budgetFetchFailed, transactionsRead, budget_category_map>>

----------------------------------------------------------------------------
(* The currency of the summary lookups (lines 225-243)                     *)

Unbound == "<unbound>"    \* currencyName before any assignment

\* a key of the summary response, "<prefix><code>"
SummaryKey(prefix, code) == [prefix |-> prefix, code |-> code]

\* line 232: re.match(r"spent-in-.*", key) matches at the start of the key
Matches(key) == key.prefix = "spent-in-"

\* a loop that keeps the first match: later matching keys change nothing
ScanKeyFirstWins(name, key) ==
    IF name # Unbound THEN name ELSE IF key.prefix = "spent-in-" THEN key.code ELSE name

\* lines 232-233, one iteration: a matching key overwrites currencyName
\* (key.replace("spent-in-", "") leaves the code); there is no break
ScanKey(name, key) == IF Matches(key) THEN key.code ELSE name

\* line 228, `if currency:`: None and the empty string are false
CurrencyConfigured(c) == c # "None" /\ c # ""

\* lines 235-243: the keys of the monthly summary read with the code
LookupPrefixes == <<"spent-in-", "earned-in-", "balance-in-">>

Currencies == {"EUR", "USD"}
ConfiguredCurrencies == {"None", "", "EUR"}
SummaryKeys == {SummaryKey(pre, c) : pre \in Range(LookupPrefixes), c \in Currencies}

\* the responses: their keys are distinct (a JSON object) and in some order
SummaryResponses ==
    UNION {{f \in [1..n -> SummaryKeys] : \A i, j \in 1..n : i # j => f[i] # f[j]} :
              n \in 0..MaxSummaryKeys}

\* lines 225-230
ChooseCurrency ==
    /\ pc = "currency"
    /\ IF CurrencyConfigured(currency)
       THEN /\ currencyName' = currency
            /\ pc' = "summary"
       ELSE /\ pc' = "currency_scan"
            /\ UNCHANGED currencyName
    /\ UNCHANGED <<aggVars, graphVars, runVars, currency, monthSummary, keysScanned,
                   lookups>>

\* lines 231-233: one iteration of `for key in monthSummary`
ScanSummaryKey ==
    /\ pc = "currency_scan"
    /\ keysScanned < Len(monthSummary)
    /\ currencyName' = ScanKey(currencyName, monthSummary[keysScanned + 1])
    /\ keysScanned' = keysScanned + 1
    /\ UNCHANGED <<pc, aggVars, graphVars, runVars, currency, monthSummary, lookups>>

\* the keys read until one is not in the response (KeyError)
RECURSIVE LookedUp(_, _, _)
LookedUp(prefixes, code, response) ==
    IF prefixes = <<>>
    THEN <<>>
    ELSE <<SummaryKey(Head(prefixes), code)>>
         \o (IF SummaryKey(Head(prefixes), code) \in Range(response)
             THEN LookedUp(Tail(prefixes), code, response)
             ELSE <<>>)

\* lines 235-243: reading currencyName when no key matched raises
\* UnboundLocalError, a key that the response lacks raises KeyError; nothing
\* catches either
ReadSummary ==
    /\ \/ pc = "summary"
       \/ pc = "currency_scan" /\ keysScanned = Len(monthSummary)
    /\ IF currencyName = Unbound
       THEN /\ pc' = "crashed"
            /\ UNCHANGED lookups
       ELSE /\ lookups' = LookedUp(LookupPrefixes, currencyName, monthSummary)
            /\ pc' = IF \A i \in 1..Len(lookups') : lookups'[i] \in Range(monthSummary)
                     THEN "summary_read"
                     ELSE "crashed"
    /\ UNCHANGED <<aggVars, graphVars, runVars, currency, monthSummary, keysScanned,
                   currencyName>>

----------------------------------------------------------------------------
(* One run of main(): configuration, API probe, data, preview or delivery  *)

NoExit == -1              \* the process has not ended

RequiredFields == <<"firefly-url", "accesstoken", "smtp", "email">>

NoException == [type |-> "none", code |-> 0]
SystemExit(code) == [type |-> "SystemExit", code |-> code]
Exception == [type |-> "Exception", code |-> 0]

\* configurations: the file cannot be read or parsed; the document is empty
\* (safe_load gives None); or a mapping with some of the top-level keys
Configs ==
    {[kind |-> "unreadable", keys |-> {}, starttls |-> FALSE,
      authentication |-> FALSE, healthcheck_url |-> "absent"],
     [kind |-> "none", keys |-> {}, starttls |-> FALSE,
      authentication |-> FALSE, healthcheck_url |-> "absent"]}
    \cup [kind : {"mapping"}, keys : SUBSET Range(RequiredFields),
          starttls : BOOLEAN, authentication : BOOLEAN,
          healthcheck_url : {"absent", "empty", "url"}]

\* line 72, `field not in config`, for the fields in the order of line 70:
\* the fields of the list that the mapping lacks
MissingFields(cfg) ==
    LET Lacks(f) == f \notin cfg.keys IN SelectSeq(RequiredFields, Lacks)

Exit(code) ==
    /\ pc' = "exited"
    /\ exitCode' = code

\* lines 57-67
LoadConfig ==
    /\ pc = "load_config"
    /\ IF config.kind = "unreadable"
       THEN /\ output' = output \cup {[kind |-> "config_unreadable", field |-> ""]}
            /\ Exit(1)
       ELSE /\ pc' = "validate_config"
            /\ UNCHANGED <<output, exitCode>>
    /\ UNCHANGED <<aggVars, graphVars, currencyVars, config, preview, network, raised, failure,
                   sent, previewWritten, pingOutcome>>

\* lines 70-74.  `field not in None` raises TypeError, which nothing
\* catches: the interpreter prints the traceback and ends with status 1.
ValidateConfig ==
    /\ pc = "validate_config"
    /\ IF config.kind = "none"
       THEN /\ output' = output \cup {[kind |-> "traceback", field |-> ""]}
            /\ Exit(1)
       ELSE IF MissingFields(config) # <<>>
       THEN /\ output' = output \cup
                   {[kind |-> "missing_field", field |-> MissingFields(config)[1]]}
            /\ Exit(1)
       ELSE /\ pc' = "probe"
            /\ UNCHANGED <<output, exitCode>>
    /\ UNCHANGED <<aggVars, graphVars, currencyVars, config, preview, network, raised, failure,
                   sent, previewWritten, pingOutcome>>

\* lines 94-104: GET /api/v1/about
ProbeApi ==
    /\ pc = "probe"
    /\ network' = Append(network, "api_probe")
    /\ \E answer \in {"200", "other_status", "exception"} :
          IF answer = "200"
          THEN /\ pc' = "fetch"
               /\ UNCHANGED <<output, exitCode>>
          ELSE /\ output' = output \cup {[kind |-> "api_unreachable", field |-> ""]}
               /\ Exit(1)
    /\ UNCHANGED <<aggVars, graphVars, currencyVars, config, preview, raised, failure, sent,
                   previewWritten, pingOutcome>>

\* lines 106-255 and 411-426: the data requests, none of them in a try; a
\* request or a lookup that raises ends the process with a traceback
FetchData ==
    /\ pc = "fetch"
    /\ network' = Append(network, "api_fetch")
    /\ \E answer \in {"ok", "exception"} :
          IF answer = "ok"
          THEN /\ pc' = "deliver"
               /\ UNCHANGED <<output, exitCode>>
          ELSE /\ output' = output \cup {[kind |-> "traceback", field |-> ""]}
               /\ Exit(1)
    /\ UNCHANGED <<aggVars, graphVars, currencyVars, config, preview, raised, failure, sent,
                   previewWritten, pingOutcome>>

\* the branch taken whatever the flag: the mail is always sent
AlwaysSend(flag) == "send"

\* lines 901 and 922: `if args.preview:` ends in `return`, so the code below
\* line 923 runs only without the flag
DeliveryMode(flag) == IF flag THEN "preview" ELSE "send"

\* lines 900-922: preview mode writes preview.html and returns
WritePreview ==
    /\ pc = "deliver"
    /\ DeliveryMode(preview) = "preview"
    /\ previewWritten' = TRUE
    /\ Exit(0)
    /\ UNCHANGED <<aggVars, graphVars, currencyVars, config, preview, output, network, raised,
                   failure, sent, pingOutcome>>

\* lines 931-934: smtplib.SMTP(host, port) connects; when it raises, the
\* `with` block is never entered and line 973 catches the exception
SmtpConnect ==
    /\ pc = "deliver"
    /\ DeliveryMode(preview) = "send"
    /\ network' = Append(network, "smtp_connect")
    /\ \E answer \in {"ok", "exception"} :
          IF answer = "ok"
          THEN /\ pc' = "smtp_starttls"
               /\ UNCHANGED <<raised, failure>>
          ELSE /\ pc' = "handler"
               /\ raised' = Exception
               /\ failure' = "connect"
    /\ UNCHANGED <<aggVars, graphVars, currencyVars, config, preview, exitCode, output, sent,
                   previewWritten, pingOutcome>>

\* lines 936-947: ehlo() is outside the inner try, starttls() inside it
SmtpStartTls ==
    /\ pc = "smtp_starttls"
    /\ IF ~config.starttls
       THEN /\ pc' = "smtp_login"
            /\ UNCHANGED <<network, raised, failure, output>>
       ELSE /\ network' = Append(network, "starttls")
            /\ \E answer \in {"ok", "ehlo_exception", "starttls_exception"} :
                  CASE answer = "ok" ->
                          /\ pc' = "smtp_login"
                          /\ UNCHANGED <<raised, failure, output>>
                    [] answer = "ehlo_exception" ->
                          /\ pc' = "smtp_quit"
                          /\ raised' = Exception
                          /\ failure' = "ehlo"
                          /\ UNCHANGED output
                    [] answer = "starttls_exception" ->
                          /\ pc' = "smtp_quit"
                          /\ raised' = SystemExit(2)
                          /\ failure' = "starttls"
                          /\ output' = output \cup
                                 {[kind |-> "starttls_failed", field |-> ""]}
    /\ UNCHANGED <<aggVars, graphVars, currencyVars, config, preview, exitCode, sent,
                   previewWritten, pingOutcome>>

\* lines 948-957
SmtpLogin ==
    /\ pc = "smtp_login"
    /\ IF ~config.authentication
       THEN /\ pc' = "smtp_send"
            /\ UNCHANGED <<network, raised, failure, output>>
       ELSE /\ network' = Append(network, "login")
            /\ \E answer \in {"ok", "exception"} :
                  IF answer = "ok"
                  THEN /\ pc' = "smtp_send"
                       /\ UNCHANGED <<raised, failure, output>>
                  ELSE /\ pc' = "smtp_quit"
                       /\ raised' = SystemExit(3)
                       /\ failure' = "login"
                       /\ output' = output \cup
                              {[kind |-> "authentication_failed", field |-> ""]}
    /\ UNCHANGED <<aggVars, graphVars, currencyVars, config, preview, exitCode, sent,
                   previewWritten, pingOutcome>>

\* lines 958-959
SmtpSend ==
    /\ pc = "smtp_send"
    /\ network' = Append(network, "send_message")
    /\ pc' = "smtp_quit"
    /\ \E answer \in {"ok", "exception"} :
          IF answer = "ok"
          THEN /\ sent' = TRUE
               /\ UNCHANGED <<raised, failure>>
          ELSE /\ raised' = Exception
               /\ failure' = "send"
               /\ UNCHANGED sent
    /\ UNCHANGED <<aggVars, graphVars, currencyVars, config, preview, exitCode, output,
                   previewWritten, pingOutcome>>

\* What leaves the `with smtplib.SMTP(...) as s:` block of line 932, given
\* what was propagating and the server's answer to the QUIT that the
\* block's exit sends: SMTP.__exit__ raises SMTPResponseException on a reply
\* other than 221, and that exception replaces the one propagating.
AfterQuit(propagating, reply) ==
    IF reply = "other" THEN Exception ELSE propagating

\* the end of the `with` block of lines 932-959
SmtpQuit ==
    /\ pc = "smtp_quit"
    /\ network' = Append(network, "quit")
    /\ \E reply \in {"221", "disconnected", "other"} :
          /\ raised' = AfterQuit(raised, reply)
          /\ failure' = IF failure = "none" /\ reply = "other" THEN "quit" ELSE failure
          /\ pc' = IF AfterQuit(raised, reply) = NoException
                   THEN "healthcheck" ELSE "handler"
    /\ UNCHANGED <<aggVars, graphVars, currencyVars, config, preview, exitCode, output, sent,
                   previewWritten, pingOutcome>>

\* line 973: `except Exception` catches what derives from Exception;
\* SystemExit does not
GenericHandlerCatches(exc) == exc.type = "Exception"

\* lines 973-976, and SystemExit leaving main()
HandleDeliveryError ==
    /\ pc = "handler"
    /\ IF GenericHandlerCatches(raised)
       THEN /\ output' = output \cup {[kind |-> "send_failed", field |-> ""]}
            /\ Exit(4)
       ELSE /\ Exit(raised.code)
            /\ UNCHANGED output
    /\ raised' = NoException
    /\ UNCHANGED <<aggVars, graphVars, currencyVars, config, preview, network, failure, sent,
                   previewWritten, pingOutcome>>

\* the ping without a handler of its own
PingHandlerCatchesNothing(outcome) == FALSE

\* line 968: the `except Exception` around the ping
PingHandlerCatches(outcome) == outcome = "exception"

\* lines 961-971: the optional healthcheck ping, inside the outer try
Healthcheck ==
    /\ pc = "healthcheck"
    /\ IF config.healthcheck_url # "url"
       THEN /\ Exit(0)
            /\ UNCHANGED <<network, pingOutcome, raised, output>>
       ELSE /\ network' = Append(network, "healthcheck")
            /\ \E outcome \in {"200", "other_status", "exception"} :
                  /\ pingOutcome' = outcome
                  /\ IF outcome = "exception" /\ ~PingHandlerCatches(outcome)
                     THEN /\ raised' = Exception
                          /\ pc' = "handler"
                          /\ UNCHANGED <<exitCode, output>>
                     ELSE /\ Exit(0)
                          /\ UNCHANGED raised
                          /\ output' = IF outcome = "200" THEN output
                                       ELSE output \cup
                                            {[kind |-> "healthcheck_warning", field |-> ""]}
    /\ UNCHANGED <<aggVars, graphVars, currencyVars, config, preview, failure, sent, previewWritten>>

----------------------------------------------------------------------------
(* Specifications *)

InitAgg ==
    /\ totals = <<>>
    /\ totalsFetched = <<>>
    /\ budgetTotals = <<>>
    /\ budgetsFetched = <<>>

InitGraph ==
    /\ incomeLegs = <<>>
    /\ revenue_to_category = <<>>
    /\ income_cat_order = <<>>
    /\ sankeyNodes = <<>>
    /\ sankeyLinks = <<>>
    /\ indices = [revenue |-> <<>>, income_category |-> <<>>, income_hub |-> NoIndex,
                  budget |-> <<>>, category |-> <<>>, savings |-> NoIndex]
    /\ budgetsMapped = 0
    /\ budgetFetchFailed = {}
    /\ transactionsRead = 0
    /\ budget_category_map = <<>>
    /\ budgetResponses = <<>>

InitRun ==
    /\ exitCode = NoExit
    /\ output = {}
    /\ network = <<>>
    /\ raised = NoException
    /\ failure = "none"
    /\ sent = FALSE
    /\ previewWritten = FALSE
    /\ pingOutcome = "none"

InitCurrency ==
    /\ currency = "None"
    /\ monthSummary = <<>>
    /\ keysScanned = 0
    /\ currencyName = Unbound
    /\ lookups = <<>>

\* the parts other than the run: a complete configuration, send mode
InitIdle ==
    /\ config = [kind |-> "mapping", keys |-> Range(RequiredFields), starttls |-> FALSE,
                 authentication |-> FALSE, healthcheck_url |-> "absent"]
    /\ preview = FALSE
    /\ InitRun
    /\ InitCurrency

InitCategories ==
    pc = "categories" /\ InitAgg /\ InitGraph /\ netChangeThisMonth = 0 /\ InitIdle
NextCategories == FetchCategory \/ SortTotals
SpecCategories == InitCategories /\ [][NextCategories]_vars

InitBudgets ==
    pc = "budgets" /\ InitAgg /\ InitGraph /\ netChangeThisMonth = 0 /\ InitIdle
NextBudgets == FetchBudget \/ SortBudgetTotals
SpecBudgets == InitBudgets /\ [][NextBudgets]_vars

\* The flow graph is built from the sorted summaries of one run: every
\* list the two fetch loops and the two sorts can leave behind.
GraphCategoryNames == {"Food", "Savings"}
GraphCategorySpent == {Missing, RawStr(-3)}
GraphBudgetNames == {"SAVINGS", "Net Savings"}
GraphBudgetSpent == {Missing, RawStr(-4)}
NetChanges == {0, 3}

GraphTotals(n) ==
    {SortCategories([i \in 1..n |-> CategorySummary(f[i][1], f[i][2], RawStr(2))]) :
        f \in [1..n -> GraphCategoryNames \X GraphCategorySpent]}

GraphBudgetTotals(n) ==
    {SortBudgets([i \in 1..n |-> BudgetSummary(i, f[i][1],
                      BudgetLimit(RawStr(10), <<>>), SumOrZero(f[i][2]))]) :
        f \in [1..n -> GraphBudgetNames \X GraphBudgetSpent]}

InitFlow ==
    /\ pc = "income"
    /\ \E c \in 0..MaxInputs, b \in 0..MaxBudgets :
          /\ c + b <= MaxInputs
          /\ totals \in GraphTotals(c)
          /\ budgetTotals \in GraphBudgetTotals(b)
    /\ totalsFetched = <<>>
    /\ budgetsFetched = <<>>
    /\ netChangeThisMonth \in NetChanges
    /\ InitGraph
    /\ InitIdle
NextFlow ==
    AccumulateIncome \/ BuildNodes \/ LinkIncome \/ MapBudgetTransactions \/ LinkExpenses
Spec == InitFlow /\ [][NextFlow]_vars

InitMain ==
    /\ pc = "load_config"
    /\ config \in Configs
    /\ preview \in BOOLEAN
    /\ InitRun
    /\ InitAgg
    /\ InitGraph
    /\ InitCurrency
    /\ netChangeThisMonth = 0
NextMain ==
    \/ LoadConfig \/ ValidateConfig \/ ProbeApi \/ FetchData \/ WritePreview
    \/ SmtpConnect \/ SmtpStartTls \/ SmtpLogin \/ SmtpSend \/ SmtpQuit
    \/ HandleDeliveryError \/ Healthcheck
SpecRun == InitMain /\ [][NextMain]_vars

InitSummary ==
    /\ pc = "currency"
    /\ currency \in ConfiguredCurrencies
    /\ monthSummary \in SummaryResponses
    /\ keysScanned = 0
    /\ currencyName = Unbound
    /\ lookups = <<>>
    /\ InitAgg
    /\ InitGraph
    /\ netChangeThisMonth = 0
    /\ config = [kind |-> "mapping", keys |-> Range(RequiredFields), starttls |-> FALSE,
                 authentication |-> FALSE, healthcheck_url |-> "absent"]
    /\ preview = FALSE
    /\ InitRun
NextSummary == ChooseCurrency \/ ScanSummaryKey \/ ReadSummary
SpecCurrency == InitSummary /\ [][NextSummary]_vars

----------------------------------------------------------------------------
(* Properties of the summaries *)

Ids(list) == [i \in 1..Len(list) |-> list[i].id]

IdsWithSpent(list, v) ==
    LET Test(e) == Float(e.spent) = v IN Ids(SelectSeq(list, Test))

WithAbsTotal(list, n) ==
    LET Test(e) == Abs(e.total) = n IN SelectSeq(list, Test)

AmountRange == -20..20

\* C2: a budget whose limit and spent are both numerically 0 gets no entry
\* in the budget summary, and every other budget gets one.
C2_ZeroBudgetsDropped ==
    \A i \in 1..Len(budgetsFetched) :
        LET b == budgetsFetched[i] IN
        (Float(b.limit) = 0 /\ Float(b.spent) = 0)
            <=> ~ \E j \in 1..Len(budgetTotals) : budgetTotals[j].id = b.id

----------------------------------------------------------------------------
(* Properties of the flow graph *)

NodesBuilt == pc \in {"links", "budget_transactions", "graph_done"}

\* C1: every link of the flow graph has a value > 0.
C1_LinkValuesPositive ==
    \A i \in 1..Len(sankeyLinks) : sankeyLinks[i].value > 0

\* C3: the ids of the nodes of one report are pairwise distinct.
C3_NodeIdsDistinct ==
    \A i, j \in 1..Len(sankeyNodes) :
        i # j => sankeyNodes[i].id # sankeyNodes[j].id

\* C4: the number of nodes is the number of distinct source accounts of the
\* income legs, plus the number of their distinct categories, plus 1 for
\* the hub, plus the budget summaries with spent # 0, plus the category
\* summaries with total < 0, plus 1 when the net change is > 0.
C4_NodeCount ==
    NodesBuilt =>
        Len(sankeyNodes) =
            Cardinality({IF incomeLegs[i].source = Absent THEN "Other Income"
                         ELSE incomeLegs[i].source : i \in 1..Len(incomeLegs)})
            + Cardinality({IF incomeLegs[i].category = Absent THEN ""
                           ELSE incomeLegs[i].category : i \in 1..Len(incomeLegs)})
            + 1
            + Cardinality({i \in 1..Len(budgetTotals) : budgetTotals[i].spent.val # 0})
            + Cardinality({i \in 1..Len(totals) : totals[i].total < 0})
            + (IF netChangeThisMonth > 0 THEN 1 ELSE 0)

C4_Witness ==
    /\ pc = "graph_done"
    /\ netChangeThisMonth > 0
    /\ \E i \in 1..Len(totals) : totals[i].total < 0
    /\ \E i, j \in 1..Len(budgetTotals) :
          /\ i # j
          /\ budgetTotals[i].name = budgetTotals[j].name
          /\ budgetTotals[i].spent.val # 0
          /\ budgetTotals[j].spent.val # 0
    /\ Len(sankeyNodes) = 5

\* C7: with a net change > 0 there is exactly one node "net_savings"; its
\* label is "Net Savings" when some budget summary, with or without
\* spending, is named "savings" in any case, and "Savings" otherwise.  With
\* a net change <= 0 there is no such node.
C7_SavingsLabel ==
    NodesBuilt =>
        LET savings == {i \in 1..Len(sankeyNodes) : sankeyNodes[i].id = "net_savings"}
            collides == \E i \in 1..Len(budgetTotals) :
                           budgetTotals[i].name \in {"savings", "Savings", "SAVINGS"}
        IN  IF netChangeThisMonth > 0
            THEN /\ Cardinality(savings) = 1
                 /\ \A i \in savings :
                       sankeyNodes[i].label =
                           IF collides THEN "Net Savings" ELSE "Savings"
            ELSE savings = {}

C7_Witness ==
    /\ pc = "graph_done"
    /\ netChangeThisMonth > 0
    /\ \E i \in 1..Len(budgetTotals) :
          /\ budgetTotals[i].name = "SAVINGS"
          /\ budgetTotals[i].spent.val = 0
    /\ \E i \in 1..Len(totals) : totals[i].name = "Savings"
    /\ \E i \in 1..Len(sankeyNodes) :
          /\ sankeyNodes[i].id = "net_savings"
          /\ sankeyNodes[i].label = "Net Savings"

----------------------------------------------------------------------------
(* Properties of the run *)

\* C8: in send mode a STARTTLS failure ends the run with exit code 2, an
\* authentication failure with exit code 3, neither of them with 4, the
\* message is not sent after either, and any other failure while
\* connecting or sending ends the run with exit code 4.
C8_ExitCodeByStage ==
    (pc = "exited" /\ ~preview) =>
        /\ failure = "starttls" => (exitCode = 2 /\ ~sent)
        /\ failure = "login" => (exitCode = 3 /\ ~sent)
        /\ failure \in {"connect", "ehlo", "send", "quit"} => exitCode = 4

\* C9: a configuration that lacks a required top-level key (the empty
\* document lacks all four), or that cannot be read, ends the run with exit
\* code 1 and, for a lacking key, an error line naming a missing field;
\* no network call is ever made.
C9_MissingFieldHalts ==
    (config.kind = "unreadable" \/ MissingFields(config) # <<>>) =>
        /\ network = <<>>
        /\ pc = "exited" =>
              /\ exitCode = 1
              /\ config.kind # "unreadable" =>
                    \E m \in output :
                        /\ m.kind = "missing_field"
                        /\ m.field \in Range(MissingFields(config))

\* C10: the healthcheck is pinged only in send mode, after send_message
\* returned and the SMTP block ended without failure, and whatever the ping
\* does (status 200, another status, an exception such as a timeout) the
\* run ends with exit code 0.
C10_HealthcheckHarmless ==
    LET pings == {i \in 1..Len(network) : network[i] = "healthcheck"} IN
    pings # {} =>
        /\ ~preview
        /\ sent
        /\ failure = "none"
        /\ \A i \in pings : \E j \in 1..(i - 1) : network[j] = "send_message"
        /\ pc = "exited"
        /\ exitCode = 0

C10_Witness ==
    /\ pc = "exited"
    /\ pingOutcome = "exception"
    /\ exitCode = 0
    /\ sent

\* the requests and connections that only a sending run makes
DeliveryTraffic ==
    {"smtp_connect", "starttls", "login", "send_message", "quit", "healthcheck"}

----------------------------------------------------------------------------
(* Properties of the currency discovery *)

\* the keys of the response of the form "spent-in-<code>", in its order
SpentKeys(response) ==
    LET IsSpent(k) == k.prefix = "spent-in-" IN SelectSeq(response, IsSpent)

LookupsUse(code) == \A i \in 1..Len(lookups) : lookups[i].code = code

\* C12, as claimed: without a configured currency and with several
\* "spent-in-<code>" keys in the response, the summary lookups use the code of
\* the first such key in the response's order; with a configured currency
\* they use that code and no key is scanned.
C12_FirstMatchWins ==
    /\ currency \notin {"None", ""} => keysScanned = 0 /\ LookupsUse(currency)
    /\ (currency = "None" /\ lookups # <<>> /\ Len(SpentKeys(monthSummary)) >= 2) =>
          LookupsUse(SpentKeys(monthSummary)[1].code)

\* C12, amended: without a configured currency (none, or an empty one) the
\* summary lookups use the code of the last "spent-in-<code>" key in the
\* response's order; with a configured non-empty currency they use that code
\* and no key is scanned.
C12_LastMatchWins ==
    /\ currency \notin {"None", ""} => keysScanned = 0 /\ LookupsUse(currency)
    /\ (currency \in {"None", ""} /\ lookups # <<>>) =>
          /\ SpentKeys(monthSummary) # <<>>
          /\ keysScanned = Len(monthSummary)
          /\ LookupsUse(SpentKeys(monthSummary)[Len(SpentKeys(monthSummary))].code)

C12_Witness ==
    /\ pc = "summary_read"
    /\ currency = "None"
    /\ Len(SpentKeys(monthSummary)) = 2
    /\ SpentKeys(monthSummary)[1].code = "EUR"
    /\ Len(lookups) = 3
    /\ LookupsUse("USD")

----------------------------------------------------------------------------
(* Properties of the budget transaction loop *)

\* the map the answered fetches alone give: a failed fetch counts as an
\* answer without transactions
RECURSIVE MapOfResponses(_)
MapOfResponses(rs) ==
    IF rs = <<>> THEN <<>>
    ELSE LET r == rs[Len(rs)]
         IN  AddExpenses(MapOfResponses(SubSeq(rs, 1, Len(rs) - 1)), r.budget,
                         IF r.failed THEN <<>> ELSE r.legs)

\* an answered fetch of a budget of that name brought an expense leg
NameHasExpense(name) ==
    \E i \in 1..Len(budgetResponses) :
        /\ budgetResponses[i].budget.name = name
        /\ ~budgetResponses[i].failed
        /\ \E j \in 1..Len(budgetResponses[i].legs) :
              Float(budgetResponses[i].legs[j].amount) < 0

\* C13: a failed transaction fetch ends neither the loop nor the run: every
\* budget is fetched in turn, a budget whose fetch failed adds nothing to
\* the budget -> category map, the map is what the answered fetches give
\* (the failed ones counting as empty answers), and the graph is completed
\* with the links of that map.
C13_FetchFailureTolerated ==
    /\ Len(budgetResponses) = budgetsMapped
    /\ budgetsMapped <= Len(budgetTotals)
    /\ \A i \in 1..Len(budgetResponses) :
          /\ i <= Len(budgetTotals)
          /\ budgetResponses[i].budget = budgetTotals[i]
          /\ budgetResponses[i].failed <=> budgetTotals[i].id \in budgetFetchFailed
    /\ MapOfResponses(budgetResponses) = budget_category_map
    /\ \A i \in 1..Len(budgetTotals) :
          ~NameHasExpense(budgetTotals[i].name) =>
              ~DictHas(budget_category_map, budgetTotals[i].name)
    /\ pc = "graph_done" =>
          /\ budgetsMapped = Len(budgetTotals)
          /\ sankeyLinks =
                RevenueLinks(revenue_to_category, indices)
                \o IncomeHubLinks(revenue_to_category, income_cat_order, indices)
                \o BudgetLinks(budgetTotals, indices)
                \o ExpenseLinks(budget_category_map, indices)
                \o SavingsLinks(indices, netChangeThisMonth)

\* the fetch of the first budget failed, the second one answered, and the
\* finished graph has the budget -> category link of the second
C13_Witness ==
    /\ pc = "graph_done"
    /\ Len(budgetTotals) = 2
    /\ budgetResponses[1].failed
    /\ ~budgetResponses[2].failed
    /\ budgetTotals[1].name # budgetTotals[2].name
    /\ budgetTotals[2].name \in DOMAIN indices.budget
    /\ "Food" \in DOMAIN indices.category
    /\ \E i \in 1..Len(sankeyLinks) :
          /\ sankeyLinks[i].source = indices.budget[budgetTotals[2].name]
          /\ sankeyLinks[i].target = indices.category["Food"]
          /\ sankeyLinks[i].value = 2

----------------------------------------------------------------------------
(* Properties of the node and link lists *)

\* the category names of the legs in the order in which each is first seen
RECURSIVE FirstSeen(_)
FirstSeen(legs) ==
    IF legs = <<>> THEN <<>>
    ELSE LET before == FirstSeen(SubSeq(legs, 1, Len(legs) - 1))
             last == legs[Len(legs)].category
             name == IF last = Absent THEN "" ELSE last
         IN  IF name \in Range(before) THEN before ELSE Append(before, name)

Labels(nodes) == [i \in 1..Len(nodes) |-> nodes[i].label]

\* C14, as claimed: the income category nodes come one per distinct
\* category of the income legs, in the order in which each category is first
\* seen in the whole input.
C14_FirstSeenOrder ==
    NodesBuilt =>
        LET first == Len(revenue_to_category) + 1
            count == Len(FirstSeen(incomeLegs))
        IN  /\ indices.income_hub = first - 1 + count
            /\ Labels(SubSeq(sankeyNodes, first, first - 1 + count))
                  = FirstSeen(incomeLegs)

\* the names that the inputs of the flow graph can carry
KnownNames ==
    {"Employer", "Other Income", "Salary", "", "Uncategorized"}
    \cup GraphCategoryNames \cup GraphBudgetNames

\* the ids that the nodes of one level can have
RevenueIds == {"revenue_" \o n : n \in KnownNames}
IncomeCategoryIds == {"income_cat_" \o n : n \in KnownNames}
BudgetIds == {"budget_" \o n : n \in KnownNames}
CategoryIds == {"category_" \o n : n \in KnownNames}

\* the layer of a node, read from its id
LayerOf(node) ==
    CASE node.id \in RevenueIds -> "RevenueAccount"
      [] node.id \in IncomeCategoryIds -> "IncomeCategory"
      [] node.id = "income_hub" -> "IncomeHub"
      [] node.id \in BudgetIds -> "Budget"
      [] node.id \in CategoryIds -> "ExpenseCategory"
      [] node.id = "net_savings" -> "Savings"
      [] OTHER -> "none"

LayerPairs ==
    {<<"RevenueAccount", "IncomeCategory">>, <<"IncomeCategory", "IncomeHub">>,
     <<"IncomeHub", "Budget">>, <<"Budget", "ExpenseCategory">>,
     <<"IncomeHub", "Savings">>}

\* C15: every link joins two existing nodes, goes from one layer to the
\* next (or from the hub to the savings node, which needs a positive net
\* change), and so has source index < target index.
C15_LinksGoForward ==
    \A i \in 1..Len(sankeyLinks) :
        LET link == sankeyLinks[i] IN
        /\ link.source \in 0..(Len(sankeyNodes) - 1)
        /\ link.target \in 0..(Len(sankeyNodes) - 1)
        /\ LET from == LayerOf(sankeyNodes[link.source + 1])
               to == LayerOf(sankeyNodes[link.target + 1])
           IN  /\ <<from, to>> \in LayerPairs
               /\ to = "Savings" => netChangeThisMonth > 0
        /\ link.source < link.target

\* a finished graph with a link of each of the five kinds
C15_Witness ==
    /\ pc = "graph_done"
    /\ {<<LayerOf(sankeyNodes[sankeyLinks[i].source + 1]),
          LayerOf(sankeyNodes[sankeyLinks[i].target + 1])>> :
           i \in 1..Len(sankeyLinks)} = LayerPairs

----------------------------------------------------------------------------
(* Properties of the budget limit *)

\* C16, as claimed: the limit of a budget is its automatic-budget amount when
\* that is present and numerically non-zero; otherwise (absent, null or
\* numerically zero) it is the amount of the first budget-limit record of
\* the period, and 0 only when there is no record.
C16_LimitDetermination ==
    \A i \in 1..Len(budgetsFetched) :
        LET b == budgetsFetched[i]
            set == b.auto.kind \in {"num", "str"} /\ Float(b.auto) # 0
        IN  Float(b.limit) =
                IF set THEN Float(b.auto)
                ELSE IF b.limits # <<>> THEN Float(b.limits[1])
                ELSE 0

----------------------------------------------------------------------------
(* Properties of the hub and budget links *)

LinksBuilt == pc \in {"budget_transactions", "graph_done"}

HubLinksTo(index) ==
    {i \in 1..Len(sankeyLinks) :
        sankeyLinks[i].source = indices.income_hub /\ sankeyLinks[i].target = index}

\* C17, as claimed: the k-th budget entry with spent # 0 has its own node,
\* the k-th after the hub, and exactly one hub link ends at that node, with
\* value abs(spent) of the entry; the other budgets have neither node nor
\* link.
C17_OneHubLinkPerBudget ==
    LinksBuilt =>
        LET spent == SelectSeq(budgetTotals, LAMBDA b : Float(b.spent) # 0)
            budgetNodes == {i \in 1..Len(sankeyNodes) :
                               LayerOf(sankeyNodes[i]) = "Budget"}
        IN  /\ budgetNodes = {indices.income_hub + 1 + k : k \in 1..Len(spent)}
            /\ \A k \in 1..Len(spent) :
                  LET own == indices.income_hub + k IN
                  /\ sankeyNodes[own + 1].label = spent[k].name
                  /\ Cardinality(HubLinksTo(own)) = 1
                  /\ \A i \in HubLinksTo(own) :
                        sankeyLinks[i].value = Abs(Float(spent[k].spent))

\* the sum of abs(amount) over the income legs of one category
LegsTotal(category) ==
    SumSeq([i \in 1..Len(incomeLegs) |->
        IF (IF incomeLegs[i].category = Absent THEN "" ELSE incomeLegs[i].category)
              = category
        THEN Abs(Float(incomeLegs[i].amount)) ELSE 0])

\* the sum of the values of the links that satisfy Test
LinksTotal(Test(_)) ==
    SumSeq([i \in 1..Len(sankeyLinks) |->
        IF Test(sankeyLinks[i]) THEN sankeyLinks[i].value ELSE 0])

\* C18: for every distinct income category, the revenue links that enter
\* its node sum to the sum of abs(amount) of its legs; when that sum is > 0
\* there is exactly one link from the node to the hub, of that value, and
\* when it is not there is none.
C18_IncomeConservation ==
    LinksBuilt =>
        \A category \in Range(FirstSeen(incomeLegs)) :
            LET node == indices.income_category[category]
                total == LegsTotal(category)
                Enters(l) == l.target = node
                Leaves(l) == l.source = node
                leaving == {i \in 1..Len(sankeyLinks) : Leaves(sankeyLinks[i])}
            IN  /\ category \in DOMAIN indices.income_category
                /\ sankeyNodes[node + 1] =
                      [id |-> "income_cat_" \o category, label |-> category]
                /\ LinksTotal(Enters) = total
                /\ \A i \in 1..Len(sankeyLinks) :
                      Enters(sankeyLinks[i]) =>
                          LayerOf(sankeyNodes[sankeyLinks[i].source + 1])
                              = "RevenueAccount"
                /\ \A i \in leaving : sankeyLinks[i].target = indices.income_hub
                /\ IF total > 0
                   THEN /\ Cardinality(leaving) = 1
                        /\ LinksTotal(Leaves) = total
                   ELSE leaving = {}

\* one category fed by two revenue accounts, and one whose legs sum to 0
C18_Witness ==
    /\ LinksBuilt
    /\ Len(revenue_to_category) = 2
    /\ LegsTotal("Salary") = 10
    /\ LegsTotal("") = 0
    /\ "" \in Range(FirstSeen(incomeLegs))
    /\ \E i \in 1..Len(sankeyLinks) :
          /\ sankeyLinks[i].source = indices.income_category["Salary"]
          /\ sankeyLinks[i].target = indices.income_hub
          /\ sankeyLinks[i].value = 10

====
